---- MODULE Spec2Model ----
(***************************************************************************)
(* A model of the MONAD mint bot: the transaction submitter of server2.js  *)
(* (sendMonadMintTx, with its retry-by-recursion and its timeout race),    *)
(* the transaction history file (saveTxHistory, getTxHistory), and the     *)
(* remote ledger the bot talks to (pending transaction count, balance,     *)
(* acceptance of signed transactions), and the command handlers of bot.js  *)
(* (/mint with its sequential loop over mintNFT, /setcontract,             *)
(* /setchannel).                                                           *)
(*                                                                         *)
(* JavaScript runs one callback at a time, so every action below is the    *)
(* code that runs between two awaits: a rejected await runs the catch      *)
(* block and the recursive call up to that call's first await in the same  *)
(* step.                                                                   *)
(***************************************************************************)
EXTENDS Integers, Sequences, FiniteSets, TLC

\* ---------------------------------------------------------------- bounds
MaxFaults == 3       \* failures the environment injects in one run (RPC and
                     \* signing errors, timeouts, rejections without a cause)
MaxAppends == 150    \* calls of saveTxHistory in one run of the history file
MaxFreeInputs == 3   \* the first results of such a run are of either status
MaxLimit == 12       \* getTxHistory is called with limits 0..MaxLimit
MaxTampers == 2      \* fields of the vault file altered behind the program's back
MaxCommands == 3     \* commands the bot of bot.js receives in one run

\* ------------------------------------------------------ program constants
RETRY_LIMIT == 2     \* server2.js:204   retryCount < 2
GAS_LIMIT == 500000  \* server2.js:50
GAS_PRICE == 1       \* server2.js:49    toWei('1','gwei'); amounts are in gwei
HISTORY_CAP == 100   \* server2.js:221   history.length > 100
BOT_GAS_LIMIT == 500000  \* bot.js (part_000:94)
BOT_GAS_PRICE == 52      \* bot.js (part_000:95)  '52000000000' wei, in gwei

\* The calls of sendMonadMintTx that may be in flight together.
Req == {1, 2}

\* web3.eth.accounts.privateKeyToAccount: the address of a well-formed key;
\* a malformed key makes it throw.
GoodKeys == {"keyA", "keyB"}
BadKeys == {"malformed"}
Keys == GoodKeys \cup BadKeys
Addrs == {"A", "B"}

ValidKey(k) == k \in GoodKeys

Addr(k) == IF k = "keyA" THEN "A" ELSE "B"

GasCost == GAS_LIMIT * GAS_PRICE

VARIABLES
  pc,            \* per call: where sendMonadMintTx is suspended
  key,           \* per call: the walletKey argument
  retryCount,    \* per call: the retryCount argument of the current invocation
  nonce,         \* per call: the local `nonce` of the current invocation
  tx,            \* per call: the local `tx` of the current invocation (its nonce)
  attempts,      \* per call: one record per entry of the try block
  msgs,          \* per call: chat messages sent, by kind
  saves,         \* per call: calls of saveTxHistory made on its behalf
  pendingCount,  \* remote ledger: per address, transactions accepted so far
  balance,       \* remote ledger: per address, balance in gwei
  sentNonces,    \* per address: nonces handed to sendSignedTransaction, in order
  txFileExists,  \* data/transactions.json exists
  history,       \* data/transactions.json content (oldest first)
  clock,         \* Date.now()
  appended,      \* every entry ever handed to history.push, in order
  faults,        \* failures injected so far
  recentLimit,   \* the limit of the last getTxHistory call (-1: none since
                 \* the last write)
  recent,        \* what that call returned
  vaultState,    \* data/wallets.enc: "absent", "garbage" (not JSON) or "json"
  vaultFile,     \* the four fields of its JSON
  wallets,       \* the in-memory credential list
  logged,        \* the level of the last line loadWallets/saveWallets logged
  decryptCall,   \* the last call of decryptWallets: vault, password and result
  tampers,       \* fields altered so far
  cfgContract,   \* bot.js: CONFIG.CONTRACT_ADDRESS
  contract,      \* bot.js: the address `contract` was built for, or NoContract
  cfgChannel,    \* bot.js: CONFIG.CHANNEL_ID
  configFile,    \* bot.js: config.json
  cfgWallets,    \* bot.js: CONFIG.WALLETS
  run,           \* bot.js: per /mint handler, where it is suspended, the
                 \* index of the wallet mintNFT was last called for, one
                 \* report per mintNFT call that returned, and the
                 \* transaction of the current call
  commands,      \* bot.js: commands received so far
  denials,       \* bot.js: 'not authorized' replies sent so far
  mintHandler    \* server2.js: /mint commands received, and how the handler
                 \* of the last one ended

vars == <<pc, key, retryCount, nonce, tx, attempts, msgs, saves, pendingCount,
          balance, sentNonces, txFileExists, history, clock, appended,
          faults, recentLimit, recent, vaultState, vaultFile, wallets, logged,
          decryptCall, tampers, cfgContract, contract, cfgChannel,
          configFile, cfgWallets, run, commands, denials, mintHandler>>

submitVars == <<pc, key, retryCount, nonce, tx, attempts, msgs, saves>>
remoteVars == <<pendingCount, balance, sentNonces>>
ledgerVars == <<txFileExists, history, clock, appended>>
recentVars == <<recentLimit, recent>>
vaultVars == <<vaultState, vaultFile, wallets, logged, decryptCall, tampers>>
botVars == <<cfgContract, contract, cfgChannel, configFile, cfgWallets, run,
             commands, denials>>

\* What the submitter and the remote ledger leave alone.
notSubmit == <<recentVars, vaultVars, botVars, mintHandler>>
\* What the history file's own operations leave alone.
notLedger == <<submitVars, remoteVars, faults, vaultVars, botVars,
               mintHandler>>
\* What the vault's operations leave alone.
notVault == <<submitVars, remoteVars, faults, ledgerVars, recentVars, botVars,
              mintHandler>>
\* What bot.js leaves alone.
notBot == <<submitVars, sentNonces, ledgerVars, recentVars, vaultVars,
           mintHandler>>

\* The /mint handlers of bot.js that may run together.
Runs == {1, 2}

\* `contract` before initializeContract succeeded.
NoContract == "undefined"

IdleRun ==
  [pc |-> "idle", idx |-> 0, reports |-> <<>>, txNonce |-> -1, wire |-> "none"]

\* server2.js before any /mint command.
NoMint == [received |-> 0, last |-> "none"]

\* bot.js as it is before it is started (and no /mint sent to server2.js).
BotAtRest ==
  /\ cfgContract = ""
  /\ contract = NoContract
  /\ cfgChannel = "@your_channel"
  /\ configFile = "none"
  /\ cfgWallets = <<>>
  /\ run = [c \in Runs |-> IdleRun]
  /\ commands = 0
  /\ denials = 0
  /\ mintHandler = NoMint

NoMsgs == [retry |-> 0, success |-> 0, failed |-> 0]

\* ------------------------------------------------------ transaction history

\* Array.prototype.slice(start) of a sequence: a negative start counts from
\* the end, and -0 is 0.
SliceFrom(s, start) ==
  LET len == Len(s)
      k == IF start < 0 THEN (IF len + start > 0 THEN len + start ELSE 0)
                        ELSE (IF start < len THEN start ELSE len)
  IN  SubSeq(s, k + 1, len)

RECURSIVE Reverse(_)
Reverse(s) == IF s = <<>> THEN <<>> ELSE Append(Reverse(Tail(s)), Head(s))

\* A cap that is off by one.
CappedOffByOne(h) ==
  IF Len(h) > HISTORY_CAP + 1 THEN SliceFrom(h, -(HISTORY_CAP + 1)) ELSE h

\* A cap that keeps the oldest entries: history.slice(0, 100)
CappedKeepsOldest(h) ==
  IF Len(h) > HISTORY_CAP THEN SubSeq(h, 1, HISTORY_CAP) ELSE h

\* saveTxHistory's cap: if (history.length > 100) history = history.slice(-100)
Capped(h) == IF Len(h) > HISTORY_CAP THEN SliceFrom(h, -HISTORY_CAP) ELSE h

\* { ...tx, timestamp: Date.now() }
Stamped(entry, now) ==
  [f \in DOMAIN entry \cup {"timestamp"} |->
     IF f = "timestamp" THEN now ELSE entry[f]]

\* A saveTxHistory that writes the new entry without reading the file.
SavedHistoryOverwrites(exists, h, entry, now) ==
  Capped(<<Stamped(entry, now)>>)

\* The file content saveTxHistory writes, given what it read.
SavedHistory(exists, h, entry, now) ==
  Capped(Append(IF exists THEN h ELSE <<>>, Stamped(entry, now)))

\* What getTxHistory(limit) returns: history.slice(-limit).reverse(), or []
\* when there is no file.
RecentOf(exists, h, limit) ==
  IF exists THEN Reverse(SliceFrom(h, -limit)) ELSE <<>>

SuccessEntry(a, hash) == [address |-> a, txHash |-> hash, status |-> "success"]

\* A failed entry whose error is lost (an error without a message).
FailedEntryWithoutError(a, err) == [address |-> a, status |-> "failed"]

FailedEntry(a, err) == [address |-> a, error |-> err, status |-> "failed"]

\* ------------------------------------------------------ the wallet vault

\* CONFIG.ENCRYPTION_PASSWORD, and another password.
PASSWORD == "your-strong-password"
Passwords == {PASSWORD, "another-password"}

\* What crypto.randomBytes(16) may draw.
RandomBytes == {[bytes |-> "r1"], [bytes |-> "r2"]}

\* The credential lists a vault may hold.
WalletLists == {<<>>, <<"keyA">>, <<"keyA", "keyB">>}

Undefined == [undefined |-> TRUE]   \* a field the JSON of the file does not have
NotHex == [nothex |-> TRUE]         \* a string with no hex digits
NoBytes == [bytes |-> ""]

NoVault ==
  [iv |-> Undefined, salt |-> Undefined, encryptedData |-> Undefined,
   hmac |-> Undefined]

\* buf.toString('hex') and Buffer.from(str, 'hex'): decoding stops at the
\* first character that is no hex digit, so NotHex decodes to no bytes.
ToHex(b) == [hex |-> b]
FromHex(h) == IF h = NotHex THEN NoBytes ELSE h.hex

\* crypto.scryptSync(password, salt, 32): one key per password and salt.
Scrypt(password, salt) == [password |-> password, salt |-> salt]

\* JSON.stringify / JSON.parse of a credential list.
Stringify(data) == [json |-> data]

\* aes-256-cbc: cipher.update(plain) + cipher.final(), as bytes.
Cipher(k, iv, plain) == [key |-> k, iv |-> iv, plain |-> plain, flipped |-> FALSE]

\* createHmac('sha256', key).update(data).digest('hex')
HmacHex(k, data) == ToHex([mac |-> k, over |-> data])

\* One flipped bit of a hex field.
FlipHex(h) == ToHex([flipped |-> h])
\* One flipped bit of the ciphertext.
FlipCipher(h) == ToHex([h.hex EXCEPT !.flipped = ~@])
\* An IV with bits flipped inside the characters of the first key (the
\* plaintext's first block is '["' and the start of the first key).
FlipIv(h) == ToHex([digitsFlipped |-> h.hex])

\* An encryptWallets whose MAC is taken over the plaintext.
EncryptWalletsMacOverPlain(data, password, iv, salt) ==
  LET k == Scrypt(password, salt)
      encrypted == ToHex(Cipher(k, iv, Stringify(data)))
  IN  [iv |-> ToHex(iv), salt |-> ToHex(salt), encryptedData |-> encrypted,
       hmac |-> HmacHex(k, Stringify(data))]

\* encryptWallets(data, password), with the bytes randomBytes drew.
EncryptWallets(data, password, iv, salt) ==
  LET k == Scrypt(password, salt)
      encrypted == ToHex(Cipher(k, iv, Stringify(data)))
  IN  [iv |-> ToHex(iv), salt |-> ToHex(salt), encryptedData |-> encrypted,
       hmac |-> HmacHex(k, encrypted)]

Thrown(what, reached) == [outcome |-> what, deciphered |-> reached, value |-> <<>>]

\* The credential list with the characters of its first key altered.
Garbled(list) == [list EXCEPT ![1] = "garbled"]

\* Lines 107-111: createDecipheriv, decipher.update + final, JSON.parse.
\* CBC with the right key and another IV alters the first plaintext block
\* only, bit for bit as the IV was altered.
Decipher(k, iv, data) ==
  IF iv = NoBytes THEN Thrown("iv", TRUE)
  ELSE IF data = NotHex THEN Thrown("decrypt", TRUE)
  ELSE LET c == data.hex
       IN  IF "plain" \notin DOMAIN c \/ c.flipped \/ c.key # k
             THEN Thrown("decrypt", TRUE)
           ELSE IF c.iv = iv
             THEN [outcome |-> "ok", deciphered |-> TRUE, value |-> c.plain.json]
           ELSE IF iv = [digitsFlipped |-> c.iv]
             THEN IF c.plain.json = <<>>
                    THEN Thrown("decrypt", TRUE)
                    ELSE [outcome |-> "ok", deciphered |-> TRUE,
                          value |-> Garbled(c.plain.json)]
           ELSE Thrown("parse", TRUE)

\* A verification that accepts every MAC.
MacMismatchIgnored(computed, stored) == FALSE

\* if (hmac !== encryptedData.hmac)
MacMismatch(computed, stored) == computed # stored

\* decryptWallets(encryptedData, password)
DecryptWallets(v, password) ==
  IF v.iv = Undefined \/ v.salt = Undefined \/ v.encryptedData = Undefined
    THEN Thrown("type", FALSE)
  ELSE LET iv == FromHex(v.iv)
           k == Scrypt(password, FromHex(v.salt))
       IN  IF MacMismatch(HmacHex(k, v.encryptedData), v.hmac)
             THEN Thrown("integrity", FALSE)
             ELSE Decipher(k, iv, v.encryptedData)

NoCall ==
  [made |-> FALSE, vault |-> NoVault, password |-> "none",
   result |-> Thrown("none", FALSE)]

\* decryptWallets is called on the vault file's record with some password.
DecryptCall(password) ==
  /\ vaultState = "json"
  /\ decryptCall' = [made |-> TRUE, vault |-> vaultFile, password |-> password,
                     result |-> DecryptWallets(vaultFile, password)]
  /\ UNCHANGED <<vaultState, vaultFile, wallets, logged, tampers, notVault>>

\* loadWallets()
LoadWallets ==
  /\ IF vaultState = "absent"
       THEN /\ logged' = "warn"
            /\ UNCHANGED <<wallets, decryptCall>>
     ELSE IF vaultState = "garbage"
       THEN /\ logged' = "error"
            /\ wallets' = <<>>
            /\ UNCHANGED decryptCall
     ELSE LET res == DecryptWallets(vaultFile, PASSWORD)
          IN  /\ decryptCall' = [made |-> TRUE, vault |-> vaultFile,
                                 password |-> PASSWORD, result |-> res]
              /\ IF res.outcome = "ok"
                   THEN wallets' = res.value /\ logged' = "info"
                   ELSE wallets' = <<>> /\ logged' = "error"
  /\ UNCHANGED <<vaultState, vaultFile, tampers, notVault>>

\* saveWallets(), with the bytes randomBytes drew.
SaveWallets(iv, salt) ==
  /\ vaultFile' = EncryptWallets(wallets, PASSWORD, iv, salt)
  /\ vaultState' = "json"
  /\ logged' = "info"
  /\ UNCHANGED <<wallets, decryptCall, tampers, notVault>>

\* The values a field of the vault file may be altered to.
Altered(f, old) ==
  {Undefined, NotHex}
    \cup (IF old = Undefined \/ old = NotHex THEN {}
          ELSE IF f = "encryptedData" THEN {FlipCipher(old)}
          ELSE IF f = "iv" THEN {FlipIv(old)}
          ELSE {FlipHex(old)})

\* Something other than the program alters one field of the vault file, or
\* overwrites the file with something that is no JSON.
Tamper ==
  /\ tampers < MaxTampers
  /\ tampers' = tampers + 1
  /\ vaultState = "json"
  /\ \/ /\ \E f \in {"iv", "salt", "encryptedData", "hmac"} :
            \E new \in Altered(f, vaultFile[f]) \ {vaultFile[f]} :
              vaultFile' = [vaultFile EXCEPT ![f] = new]
        /\ UNCHANGED vaultState
     \/ /\ vaultState' = "garbage"
        /\ vaultFile' = NoVault
  /\ UNCHANGED <<wallets, logged, decryptCall, notVault>>

InitVault ==
  /\ pc = [r \in Req |-> "idle"]
  /\ key = [r \in Req |-> "none"]
  /\ retryCount = [r \in Req |-> 0]
  /\ nonce = [r \in Req |-> -1]
  /\ tx = [r \in Req |-> -1]
  /\ attempts = [r \in Req |-> <<>>]
  /\ msgs = [r \in Req |-> NoMsgs]
  /\ saves = [r \in Req |-> 0]
  /\ pendingCount = [a \in Addrs |-> 0]
  /\ balance = [a \in Addrs |-> GasCost]
  /\ sentNonces = [a \in Addrs |-> <<>>]
  /\ faults = 0
  /\ txFileExists = FALSE
  /\ history = <<>>
  /\ clock = 1
  /\ appended = <<>>
  /\ recentLimit = -1
  /\ recent = <<>>
  /\ \/ vaultState = "absent" /\ vaultFile = NoVault
     \/ /\ vaultState = "json"
        /\ vaultFile \in
             {EncryptWallets(data, password, iv, salt) :
                data \in WalletLists, password \in Passwords,
                iv \in RandomBytes, salt \in RandomBytes}
  /\ wallets = <<>>
  /\ logged = "none"
  /\ decryptCall = NoCall
  /\ tampers = 0
  /\ BotAtRest

NextVault ==
  \/ \E password \in Passwords : DecryptCall(password)
  \/ LoadWallets
  \/ \E iv \in RandomBytes, salt \in RandomBytes : SaveWallets(iv, salt)
  \/ Tamper

SpecVault == InitVault /\ [][NextVault]_vars

\* ------------------------------------------------------ sendMonadMintTx

\* One entry of the try block: the nonce getTransactionCount returned, the
\* nonce of the transaction handed to sendSignedTransaction, where that
\* transaction is (none: never sent; sent: on its way or queued at the remote
\* ledger; accepted; rejected), and how the attempt ended.
OpenAttempt == [fetched |-> -1, txNonce |-> -1, wire |-> "none", end |-> "open"]

\* A timeout that cancels the call it raced against.
EndAttemptCancels(atts, how) ==
  [atts EXCEPT ![Len(atts)] =
     [@ EXCEPT !.end = how,
               !.wire = IF how = "timeout" THEN "rejected" ELSE @]]

EndAttempt(atts, how) == [atts EXCEPT ![Len(atts)].end = how]

\* A retry budget that is off by one: if (retryCount <= 2)
RetryAllowedOffByOne(rc) == rc <= RETRY_LIMIT

\* if (retryCount < 2)
RetryAllowed(rc) == rc < RETRY_LIMIT

\* A nonce counted up locally on a retry instead of the one just fetched.
TxNonceLocalIncrement(fresh, rc) == fresh + rc

\* tx = { ..., nonce: nonce }
TxNonce(fresh, rc) == fresh

\* receipt.transactionHash: the hash of the signed transaction, which differs
\* from another of this bot's transactions only in sender and nonce.
TxHash(a, n) == <<a, n>>

\* The code of sendMonadMintTx(walletKey, msg, retryCount) that runs before its
\* first await, as the values it leaves: privateKeyToAccount either throws
\* (straight into the catch block) or the call suspends on
\* getTransactionCount. CatchResult is the catch block: a retry is the
\* recursive call, the final failure sends its message and then builds the
\* history entry with privateKeyToAccount(walletKey).address, which throws
\* again for a malformed key, so that nothing is saved and the promise rejects.
RECURSIVE EnterResult(_, _, _, _), CatchResult(_, _, _, _, _)
EnterResult(k, rc, atts, m) ==
  IF ValidKey(k)
    THEN [pc |-> "nonce", rc |-> rc, atts |-> Append(atts, OpenAttempt),
          msgs |-> m, save |-> <<>>]
    ELSE CatchResult(k, rc, Append(atts, [OpenAttempt EXCEPT !.end = "badkey"]),
                     m, "invalid private key")

CatchResult(k, rc, atts, m, err) ==
  IF RetryAllowed(rc)
    THEN EnterResult(k, rc + 1, atts, [m EXCEPT !.retry = @ + 1])
    ELSE [pc |-> IF ValidKey(k) THEN "done" ELSE "threw",
          rc |-> rc, atts |-> atts,
          msgs |-> [m EXCEPT !.failed = @ + 1],
          save |-> IF ValidKey(k) THEN <<FailedEntry(Addr(k), err)>> ELSE <<>>]

\* saveTxHistory(entry) for call r, when there is an entry to save.
SaveFor(r, save) ==
  IF save = <<>>
    THEN UNCHANGED <<ledgerVars, saves>>
    ELSE /\ history' = SavedHistory(txFileExists, history, save[1], clock)
         /\ txFileExists' = TRUE
         /\ clock' = clock + 1
         /\ appended' = Append(appended, Stamped(save[1], clock))
         /\ saves' = [saves EXCEPT ![r] = @ + 1]

\* Call r continues as the result res of EnterResult/CatchResult says.
Continue(r, res) ==
  /\ pc' = [pc EXCEPT ![r] = res.pc]
  /\ retryCount' = [retryCount EXCEPT ![r] = res.rc]
  /\ nonce' = [nonce EXCEPT ![r] = -1]
  /\ tx' = [tx EXCEPT ![r] = -1]
  /\ attempts' = [attempts EXCEPT ![r] = res.atts]
  /\ msgs' = [msgs EXCEPT ![r] = res.msgs]
  /\ SaveFor(r, res.save)

\* The awaited promise of call r rejects: the catch block runs.
Fail(r, how, err) ==
  Continue(r, CatchResult(key[r], retryCount[r], EndAttempt(attempts[r], how),
                          msgs[r], err))

\* sendMonadMintTx(walletKey, msg) is called (retryCount = 0).
Call(r, k) ==
  /\ pc[r] = "idle"
  /\ \A q \in Req : q < r => pc[q] # "idle"
  /\ key' = [key EXCEPT ![r] = k]
  /\ Continue(r, EnterResult(k, 0, <<>>, NoMsgs))
  /\ UNCHANGED <<remoteVars, faults>>
  /\ UNCHANGED notSubmit

\* await getTransactionCount(address, 'pending') resolves; tx is built and
\* account.signTransaction(tx) is awaited.
NonceReply(r) ==
  /\ pc[r] = "nonce"
  /\ LET n == pendingCount[Addr(key[r])]
     IN  /\ nonce' = [nonce EXCEPT ![r] = n]
         /\ tx' = [tx EXCEPT ![r] = TxNonce(n, retryCount[r])]
         /\ attempts' = [attempts EXCEPT ![r][Len(attempts[r])].fetched = n]
  /\ pc' = [pc EXCEPT ![r] = "sign"]
  /\ UNCHANGED <<key, retryCount, msgs, saves, remoteVars, ledgerVars, faults>>
  /\ UNCHANGED notSubmit

\* await getTransactionCount rejects (RPC error).
NonceFail(r) ==
  /\ pc[r] = "nonce"
  /\ faults < MaxFaults
  /\ faults' = faults + 1
  /\ Fail(r, "rpcfail", "rpc error")
  /\ UNCHANGED <<key, remoteVars>>
  /\ UNCHANGED notSubmit

\* await signTransaction resolves; sendSignedTransaction is called and raced
\* against the 60 s timer.
SignDone(r) ==
  /\ pc[r] = "sign"
  /\ attempts' = [attempts EXCEPT ![r][Len(attempts[r])] =
                    [@ EXCEPT !.txNonce = tx[r], !.wire = "sent"]]
  /\ sentNonces' = [sentNonces EXCEPT ![Addr(key[r])] = Append(@, tx[r])]
  /\ pc' = [pc EXCEPT ![r] = "race"]
  /\ UNCHANGED <<key, retryCount, nonce, tx, msgs, saves, pendingCount,
                 balance, ledgerVars, faults>>
  /\ UNCHANGED notSubmit

\* await signTransaction rejects.
SignFail(r) ==
  /\ pc[r] = "sign"
  /\ faults < MaxFaults
  /\ faults' = faults + 1
  /\ Fail(r, "signfail", "signing failed")
  /\ UNCHANGED <<key, remoteVars>>
  /\ UNCHANGED notSubmit

\* The remote ledger accepts a transaction it holds: its nonce is the
\* sender's next nonce and the sender can pay for the gas.
RemoteAccept(r, i) ==
  /\ i \in DOMAIN attempts[r]
  /\ attempts[r][i].wire = "sent"
  /\ attempts[r][i].txNonce = pendingCount[Addr(key[r])]
  /\ balance[Addr(key[r])] >= GasCost
  /\ attempts' = [attempts EXCEPT ![r][i].wire = "accepted"]
  /\ pendingCount' = [pendingCount EXCEPT ![Addr(key[r])] = @ + 1]
  /\ UNCHANGED <<pc, key, retryCount, nonce, tx, msgs, saves, balance,
                 sentNonces, ledgerVars, faults>>
  /\ UNCHANGED notSubmit

\* The remote ledger rejects a transaction it holds: its nonce is used up,
\* or the sender cannot pay for the gas.
RemoteReject(r, i) ==
  /\ i \in DOMAIN attempts[r]
  /\ attempts[r][i].wire = "sent"
  /\ \/ attempts[r][i].txNonce < pendingCount[Addr(key[r])]
     \/ balance[Addr(key[r])] < GasCost
  /\ attempts' = [attempts EXCEPT ![r][i].wire = "rejected"]
  /\ UNCHANGED <<pc, key, retryCount, nonce, tx, msgs, saves, remoteVars,
                 ledgerVars, faults>>
  /\ UNCHANGED notSubmit

\* The remote ledger rejects a transaction it could have accepted (the call
\* reverts, the node is overloaded, ...).
RemoteRefuse(r, i) ==
  /\ i \in DOMAIN attempts[r]
  /\ attempts[r][i].wire = "sent"
  /\ attempts[r][i].txNonce >= pendingCount[Addr(key[r])]
  /\ balance[Addr(key[r])] >= GasCost
  /\ faults < MaxFaults
  /\ faults' = faults + 1
  /\ attempts' = [attempts EXCEPT ![r][i].wire = "rejected"]
  /\ UNCHANGED <<pc, key, retryCount, nonce, tx, msgs, saves, remoteVars,
                 ledgerVars>>
  /\ UNCHANGED notSubmit

\* The race is won by sendSignedTransaction resolving with the receipt: the
\* success message and saveTxHistory.
SendResolved(r) ==
  /\ pc[r] = "race"
  /\ attempts[r][Len(attempts[r])].wire = "accepted"
  /\ pc' = [pc EXCEPT ![r] = "done"]
  /\ attempts' = [attempts EXCEPT ![r] = EndAttempt(@, "success")]
  /\ msgs' = [msgs EXCEPT ![r].success = @ + 1]
  /\ SaveFor(r, <<SuccessEntry(Addr(key[r]), TxHash(Addr(key[r]), tx[r]))>>)
  /\ UNCHANGED <<key, retryCount, nonce, tx, remoteVars, faults>>
  /\ UNCHANGED notSubmit

\* The race is won by sendSignedTransaction rejecting.
SendRejected(r) ==
  /\ pc[r] = "race"
  /\ attempts[r][Len(attempts[r])].wire = "rejected"
  /\ Fail(r, "rejected", "rejected by remote")
  /\ UNCHANGED <<key, remoteVars, faults>>
  /\ UNCHANGED notSubmit

\* A race without the timer: await sendSignedTransaction alone.
TimerNeverSet(r) == FALSE /\ UNCHANGED vars

\* The race is won by the timer. The transaction stays where it is: nothing
\* cancels the call.
TimerFires(r) ==
  /\ pc[r] = "race"
  /\ Fail(r, "timeout", "Transaction timed out")
  /\ UNCHANGED <<key, remoteVars>>
  /\ UNCHANGED notSubmit

\* The timer fires, as one of the failures the environment injects.
Timeout(r) ==
  /\ faults < MaxFaults
  /\ faults' = faults + 1
  /\ TimerFires(r)

Init ==
  /\ pc = [r \in Req |-> "idle"]
  /\ key = [r \in Req |-> "none"]
  /\ retryCount = [r \in Req |-> 0]
  /\ nonce = [r \in Req |-> -1]
  /\ tx = [r \in Req |-> -1]
  /\ attempts = [r \in Req |-> <<>>]
  /\ msgs = [r \in Req |-> NoMsgs]
  /\ saves = [r \in Req |-> 0]
  /\ pendingCount = [a \in Addrs |-> 0]
  /\ balance \in {b \in [Addrs -> {GasCost - 1, GasCost}] : b["A"] = GasCost}
  /\ sentNonces = [a \in Addrs |-> <<>>]
  /\ txFileExists = FALSE
  /\ history = <<>>
  /\ clock = 1
  /\ appended = <<>>
  /\ faults = 0
  /\ recentLimit = -1
  /\ recent = <<>>
  /\ vaultState = "absent"
  /\ vaultFile = NoVault
  /\ wallets = <<>>
  /\ logged = "none"
  /\ decryptCall = NoCall
  /\ tampers = 0
  /\ BotAtRest

Next ==
  \/ \E r \in Req, k \in Keys : Call(r, k)
  \/ \E r \in Req : NonceReply(r)
  \/ \E r \in Req : NonceFail(r)
  \/ \E r \in Req : SignDone(r)
  \/ \E r \in Req : SignFail(r)
  \/ \E r \in Req, i \in 1..(RETRY_LIMIT + 2) : RemoteAccept(r, i)
  \/ \E r \in Req, i \in 1..(RETRY_LIMIT + 2) : RemoteReject(r, i)
  \/ \E r \in Req, i \in 1..(RETRY_LIMIT + 2) : RemoteRefuse(r, i)
  \/ \E r \in Req : SendResolved(r)
  \/ \E r \in Req : SendRejected(r)
  \/ \E r \in Req : Timeout(r)

Spec == Init /\ [][Next]_vars

\* ------------------------------------------------------ termination

\* The timer fires whenever a race lasts 60 s, however many failures there
\* were before.
TimeoutUnbounded(r) == TimerFires(r) /\ UNCHANGED faults

\* getTransactionCount answers, one way or the other.
NonceAnswer(r) == NonceReply(r) \/ NonceFail(r)

\* signTransaction settles, one way or the other.
SignAnswer(r) == SignDone(r) \/ SignFail(r)

\* No step of a call waits for a step of another call, so that one call is
\* followed to its end.
LiveReq == {1}

NextLive ==
  \/ \E r \in LiveReq, k \in Keys : Call(r, k)
  \/ \E r \in LiveReq : NonceReply(r)
  \/ \E r \in LiveReq : NonceFail(r)
  \/ \E r \in LiveReq : SignDone(r)
  \/ \E r \in LiveReq : SignFail(r)
  \/ \E r \in LiveReq, i \in 1..(RETRY_LIMIT + 2) : RemoteAccept(r, i)
  \/ \E r \in LiveReq, i \in 1..(RETRY_LIMIT + 2) : RemoteReject(r, i)
  \/ \E r \in LiveReq, i \in 1..(RETRY_LIMIT + 2) : RemoteRefuse(r, i)
  \/ \E r \in LiveReq : SendResolved(r)
  \/ \E r \in LiveReq : SendRejected(r)
  \/ \E r \in LiveReq : TimeoutUnbounded(r)

\* The remote ledger is free never to answer a send call. The nonce query
\* and the signing settle, and a timer that was set fires unless the race
\* ended before.
SpecLive ==
  /\ Init
  /\ [][NextLive]_vars
  /\ \A r \in LiveReq : WF_vars(NonceAnswer(r))
  /\ \A r \in LiveReq : WF_vars(SignAnswer(r))
  /\ \A r \in LiveReq : WF_vars(TimeoutUnbounded(r))

\* ------------------------------------------------------ bot.js

\* CONFIG.ADMIN_IDS, and the users who send commands.
ADMIN_IDS == {"admin"}
Users == {"admin", "stranger"}

\* Anyone is an admin.
IsAdminAnyone(userId) == TRUE

\* isAdmin(userId)
IsAdmin(userId) == userId \in ADMIN_IDS

\* An entry of CONFIG.WALLETS: a key written with or without its 0x prefix.
WithPrefix(k) == [prefixed |-> TRUE, body |-> k]
Bare(k) == [prefixed |-> FALSE, body |-> k]

\* if (!walletKey.startsWith('0x')) walletKey = '0x' + walletKey
With0x(w) == IF w.prefixed THEN w ELSE [w EXCEPT !.prefixed = TRUE]

\* privateKeyToAccount(walletKey) of a prefixed key returns an account.
BotValidKey(w) == w.prefixed /\ ValidKey(w.body)

\* The values of the WALLETS environment variable.
BotWalletLists ==
  {<<>>,
   <<Bare("keyA")>>,
   <<WithPrefix("keyA"), Bare("keyB")>>,
   <<WithPrefix("malformed"), WithPrefix("keyB")>>,
   <<Bare("keyA"), WithPrefix("malformed")>>,
   <<Bare("keyB"), WithPrefix("malformed"), WithPrefix("keyA")>>}

\* web3.utils.isAddress, and the arguments /setcontract is sent with.
ContractArgs == {"0xc1", "0xc2", "not-an-address"}
IsAddress(a) == a \in {"0xc1", "0xc2"}

\* The arguments /setchannel is sent with.
ChannelArgs == {"@news", "-1001", "news"}
ValidChannel(ch) == ch \in {"@news", "-1001"}

BotGasCost == BOT_GAS_LIMIT * BOT_GAS_PRICE

\* mintNFT returns after sending the message that reports its outcome; the
\* handler goes on to the 2 s delay.
Reported(rn, outcome) ==
  [rn EXCEPT !.pc = "delay", !.reports = Append(@, outcome)]

\* A catch block that throws the error on.
CaughtRethrows(rn) == [rn EXCEPT !.pc = "aborted"]

\* mintNFT's catch block: the 'Mint failed' message.
Caught(rn) == Reported(rn, "failed")

\* mintNFT(CONFIG.WALLETS[i], chatId) up to its first await on the node.
EnterMint(rn, i) ==
  LET entered == [rn EXCEPT !.idx = i, !.txNonce = -1, !.wire = "none"]
  IN  IF contract = NoContract
        THEN Reported(entered, "nocontract")
      ELSE IF ~BotValidKey(With0x(cfgWallets[i]))
        THEN Caught(entered)
      ELSE [entered EXCEPT !.pc = "balance"]

BotAddr(c) == Addr(cfgWallets[run[c].idx].body)

\* A command arrives.
Received ==
  /\ commands < MaxCommands
  /\ commands' = commands + 1

Denied ==
  /\ denials' = denials + 1
  /\ UNCHANGED <<cfgContract, contract, cfgChannel, configFile, cfgWallets,
                 run>>

\* bot.onText(/\/mint/) for a message from user u, up to its first await.
MintCommand(c, u) ==
  /\ Received
  /\ run[c].pc \in {"idle", "done", "aborted"}
  /\ \A b \in Runs : b < c => run[b].pc # "idle"
  /\ IF ~IsAdmin(u) THEN Denied
     ELSE /\ IF Len(cfgWallets) = 0
               THEN UNCHANGED run
               ELSE run' = [run EXCEPT ![c] = [IdleRun EXCEPT !.pc = "start"]]
          /\ UNCHANGED <<cfgContract, contract, cfgChannel, configFile,
                         cfgWallets, denials>>
  /\ UNCHANGED <<remoteVars, faults, notBot>>

\* The 'Starting mint process' message is sent: the loop calls mintNFT for
\* the first wallet.
StartSent(c) ==
  /\ run[c].pc = "start"
  /\ run' = [run EXCEPT ![c] = EnterMint(@, 1)]
  /\ UNCHANGED <<cfgContract, contract, cfgChannel, configFile, cfgWallets,
                 commands, denials, remoteVars, faults, notBot>>

\* Sending that message fails: the handler's promise rejects.
StartFailed(c) ==
  /\ run[c].pc = "start"
  /\ faults < MaxFaults
  /\ faults' = faults + 1
  /\ run' = [run EXCEPT ![c].pc = "aborted"]
  /\ UNCHANGED <<cfgContract, contract, cfgChannel, configFile, cfgWallets,
                 commands, denials, remoteVars, notBot>>

\* await web3.eth.getBalance(address) resolves.
BalanceReply(c) ==
  /\ run[c].pc = "balance"
  /\ run' = [run EXCEPT ![c] =
               IF balance[BotAddr(c)] < BotGasCost
                 THEN Reported(@, "insufficient")
                 ELSE [@ EXCEPT !.pc = "sign"]]
  /\ UNCHANGED <<cfgContract, contract, cfgChannel, configFile, cfgWallets,
                 commands, denials, remoteVars, faults, notBot>>

\* await web3.eth.getBalance(address) rejects.
BalanceFail(c) ==
  /\ run[c].pc = "balance"
  /\ faults < MaxFaults
  /\ faults' = faults + 1
  /\ run' = [run EXCEPT ![c] = Caught(@)]
  /\ UNCHANGED <<cfgContract, contract, cfgChannel, configFile, cfgWallets,
                 commands, denials, remoteVars, notBot>>

\* await account.signTransaction(tx) resolves: tx names no nonce, so web3
\* fills in the sender's pending transaction count; sendSignedTransaction is
\* called and awaited.
BotSignDone(c) ==
  /\ run[c].pc = "sign"
  /\ run' = [run EXCEPT ![c] = [@ EXCEPT !.pc = "send", !.wire = "sent",
                                         !.txNonce = pendingCount[BotAddr(c)]]]
  /\ UNCHANGED <<cfgContract, contract, cfgChannel, configFile, cfgWallets,
                 commands, denials, remoteVars, faults, notBot>>

\* await account.signTransaction(tx) rejects.
BotSignFail(c) ==
  /\ run[c].pc = "sign"
  /\ faults < MaxFaults
  /\ faults' = faults + 1
  /\ run' = [run EXCEPT ![c] = Caught(@)]
  /\ UNCHANGED <<cfgContract, contract, cfgChannel, configFile, cfgWallets,
                 commands, denials, remoteVars, notBot>>

\* The remote ledger accepts the transaction of handler c.
BotRemoteAccept(c) ==
  /\ run[c].wire = "sent"
  /\ run[c].txNonce = pendingCount[BotAddr(c)]
  /\ balance[BotAddr(c)] >= BotGasCost
  /\ run' = [run EXCEPT ![c].wire = "accepted"]
  /\ pendingCount' = [pendingCount EXCEPT ![BotAddr(c)] = @ + 1]
  /\ UNCHANGED <<cfgContract, contract, cfgChannel, configFile, cfgWallets,
                 commands, denials, balance, faults, notBot>>

\* The remote ledger rejects it: its nonce is used up.
BotRemoteReject(c) ==
  /\ run[c].wire = "sent"
  /\ run[c].txNonce < pendingCount[BotAddr(c)]
  /\ run' = [run EXCEPT ![c].wire = "rejected"]
  /\ UNCHANGED <<cfgContract, contract, cfgChannel, configFile, cfgWallets,
                 commands, denials, remoteVars, faults, notBot>>

\* The remote ledger rejects a transaction it could have accepted.
BotRemoteRefuse(c) ==
  /\ run[c].wire = "sent"
  /\ run[c].txNonce >= pendingCount[BotAddr(c)]
  /\ faults < MaxFaults
  /\ faults' = faults + 1
  /\ run' = [run EXCEPT ![c].wire = "rejected"]
  /\ UNCHANGED <<cfgContract, contract, cfgChannel, configFile, cfgWallets,
                 commands, denials, remoteVars, notBot>>

\* await sendSignedTransaction resolves: the 'Mint successful' message.
BotSendResolved(c) ==
  /\ run[c].pc = "send"
  /\ run[c].wire = "accepted"
  /\ run' = [run EXCEPT ![c] = Reported(@, "success")]
  /\ UNCHANGED <<cfgContract, contract, cfgChannel, configFile, cfgWallets,
                 commands, denials, remoteVars, faults, notBot>>

\* await sendSignedTransaction rejects.
BotSendRejected(c) ==
  /\ run[c].pc = "send"
  /\ run[c].wire = "rejected"
  /\ run' = [run EXCEPT ![c] = Caught(@)]
  /\ UNCHANGED <<cfgContract, contract, cfgChannel, configFile, cfgWallets,
                 commands, denials, remoteVars, faults, notBot>>

\* The 2 s delay is over: the loop calls mintNFT for the next wallet, or the
\* handler returns.
DelayDone(c) ==
  /\ run[c].pc = "delay"
  /\ run' = [run EXCEPT ![c] =
               IF run[c].idx < Len(cfgWallets)
                 THEN EnterMint(@, run[c].idx + 1)
                 ELSE [@ EXCEPT !.pc = "done"]]
  /\ UNCHANGED <<cfgContract, contract, cfgChannel, configFile, cfgWallets,
                 commands, denials, remoteVars, faults, notBot>>

\* saveConfig()
SavedConfig(address, channel) ==
  [contractAddress |-> address, channelId |-> channel]

\* bot.onText(/\/setcontract (.+)/) for a message from user u.
SetContract(u, newAddress) ==
  /\ Received
  /\ IF ~IsAdmin(u) THEN Denied
     ELSE IF ~IsAddress(newAddress)
       THEN UNCHANGED <<cfgContract, contract, cfgChannel, configFile,
                        cfgWallets, run, denials>>
     ELSE /\ cfgContract' = newAddress
          /\ contract' = newAddress
          /\ configFile' = SavedConfig(newAddress, cfgChannel)
          /\ UNCHANGED <<cfgChannel, cfgWallets, run, denials>>
  /\ UNCHANGED <<remoteVars, faults, notBot>>

\* bot.onText(/\/setchannel (.+)/) for a message from user u.
SetChannel(u, newChannel) ==
  /\ Received
  /\ IF ~IsAdmin(u) THEN Denied
     ELSE IF ~ValidChannel(newChannel)
       THEN UNCHANGED <<cfgContract, contract, cfgChannel, configFile,
                        cfgWallets, run, denials>>
     ELSE /\ cfgChannel' = newChannel
          /\ configFile' = SavedConfig(cfgContract, newChannel)
          /\ UNCHANGED <<cfgContract, contract, cfgWallets, run, denials>>
  /\ UNCHANGED <<remoteVars, faults, notBot>>

\* bot.js after validateConfig, loadConfig (no config.json yet) and
\* initializeContract: CONTRACT_ADDRESS and WALLETS come from the environment.
InitBot ==
  /\ pc = [r \in Req |-> "idle"]
  /\ key = [r \in Req |-> "none"]
  /\ retryCount = [r \in Req |-> 0]
  /\ nonce = [r \in Req |-> -1]
  /\ tx = [r \in Req |-> -1]
  /\ attempts = [r \in Req |-> <<>>]
  /\ msgs = [r \in Req |-> NoMsgs]
  /\ saves = [r \in Req |-> 0]
  /\ pendingCount = [a \in Addrs |-> 0]
  /\ balance \in {b \in [Addrs -> {BotGasCost - 1, BotGasCost}] :
                    b["A"] = BotGasCost}
  /\ sentNonces = [a \in Addrs |-> <<>>]
  /\ txFileExists = FALSE
  /\ history = <<>>
  /\ clock = 1
  /\ appended = <<>>
  /\ faults = 0
  /\ recentLimit = -1
  /\ recent = <<>>
  /\ vaultState = "absent"
  /\ vaultFile = NoVault
  /\ wallets = <<>>
  /\ logged = "none"
  /\ decryptCall = NoCall
  /\ tampers = 0
  /\ cfgContract \in {"", "0xc1"}
  /\ contract = IF IsAddress(cfgContract) THEN cfgContract ELSE NoContract
  /\ cfgChannel = "@your_channel"
  /\ configFile = "none"
  /\ cfgWallets \in BotWalletLists
  /\ run = [c \in Runs |-> IdleRun]
  /\ commands = 0
  /\ denials = 0
  /\ mintHandler = NoMint

NextBot ==
  \/ \E c \in Runs, u \in Users : MintCommand(c, u)
  \/ \E c \in Runs : StartSent(c)
  \/ \E c \in Runs : StartFailed(c)
  \/ \E c \in Runs : BalanceReply(c)
  \/ \E c \in Runs : BalanceFail(c)
  \/ \E c \in Runs : BotSignDone(c)
  \/ \E c \in Runs : BotSignFail(c)
  \/ \E c \in Runs : BotRemoteAccept(c)
  \/ \E c \in Runs : BotRemoteReject(c)
  \/ \E c \in Runs : BotRemoteRefuse(c)
  \/ \E c \in Runs : BotSendResolved(c)
  \/ \E c \in Runs : BotSendRejected(c)
  \/ \E c \in Runs : DelayDone(c)
  \/ \E u \in Users, a \in ContractArgs : SetContract(u, a)
  \/ \E u \in Users, ch \in ChannelArgs : SetChannel(u, ch)

SpecBot == InitBot /\ [][NextBot]_vars

\* ------------------------------------------------------ /mint of server2.js

\* CONFIG.ADMIN_ID (ids are written as their digits).
ADMIN_ID == "6668515216"

\* msg.from.id: the admin and somebody else.
ServerUsers == {ADMIN_ID, "1"}

\* CONFIG.WALLETS: CONFIG has no such property.
NoProperty == [undefined |-> TRUE]
CONFIG_WALLETS == NoProperty

\* The calls CONFIG.WALLETS.map(wallet => sendMonadMintTx(wallet, msg))
\* makes, each up to its first await: call i is for the i-th element.
RECURSIVE MapCalls(_, _, _)
MapCalls(list, i, st) ==
  IF i > Len(list) \/ i \notin Req THEN st
  ELSE LET res == EnterResult(list[i], 0, <<>>, NoMsgs)
       IN  MapCalls(list, i + 1,
             [pc |-> [st.pc EXCEPT ![i] = res.pc],
              key |-> [st.key EXCEPT ![i] = list[i]],
              retryCount |-> [st.retryCount EXCEPT ![i] = res.rc],
              attempts |-> [st.attempts EXCEPT ![i] = res.atts],
              msgs |-> [st.msgs EXCEPT ![i] = res.msgs]])

\* bot.onText(/\/mint/) of server2.js for a message from user u. Reading
\* .map of an undefined property throws a TypeError before any call is made.
ServerMint(u) ==
  /\ mintHandler.received < MaxCommands
  /\ IF u # ADMIN_ID
       THEN /\ mintHandler' = [received |-> mintHandler.received + 1,
                               last |-> "ignored"]
            /\ UNCHANGED submitVars
     ELSE IF CONFIG_WALLETS = NoProperty
       THEN /\ mintHandler' = [received |-> mintHandler.received + 1,
                               last |-> "threw"]
            /\ UNCHANGED submitVars
     ELSE LET st == MapCalls(CONFIG_WALLETS, 1,
                      [pc |-> pc, key |-> key, retryCount |-> retryCount,
                       attempts |-> attempts, msgs |-> msgs])
          IN  /\ mintHandler' = [received |-> mintHandler.received + 1,
                                 last |-> "started"]
              /\ pc' = st.pc
              /\ key' = st.key
              /\ retryCount' = st.retryCount
              /\ attempts' = st.attempts
              /\ msgs' = st.msgs
              /\ UNCHANGED <<nonce, tx, saves>>
  /\ UNCHANGED <<remoteVars, faults, ledgerVars, recentVars, vaultVars,
                 botVars>>

\* server2.js from its start: loadWallets() reads the vault file, which
\* exists or not and may have been altered, and /mint commands arrive.
NextMint ==
  \/ LoadWallets
  \/ Tamper
  \/ \E u \in ServerUsers : ServerMint(u)

SpecMint == InitVault /\ [][NextMint]_vars

\* ------------------------------------------------------ the history file alone

\* The n-th result handed to saveTxHistory: of either status for the first
\* MaxFreeInputs results, alternating afterwards.
LedgerInputs(n) ==
  LET ok == SuccessEntry("A", TxHash("A", n))
      ko == FailedEntry("A", "Transaction timed out")
  IN  IF n <= MaxFreeInputs THEN {ok, ko}
      ELSE IF n % 2 = 1 THEN {ok} ELSE {ko}

\* A history file an earlier run of the program left: n entries.
LeftBehind(n) ==
  [i \in 1..n |->
     Stamped(IF i % 2 = 1 THEN SuccessEntry("B", TxHash("B", i))
                          ELSE FailedEntry("B", "rejected by remote"), i)]

\* saveTxHistory(tx)
SaveTxHistory(entry) ==
  /\ history' = SavedHistory(txFileExists, history, entry, clock)
  /\ txFileExists' = TRUE
  /\ clock' = clock + 1
  /\ appended' = Append(appended, Stamped(entry, clock))
  /\ recentLimit' = -1
  /\ recent' = <<>>
  /\ UNCHANGED notLedger

\* getTxHistory(limit)
GetTxHistory(limit) ==
  /\ recentLimit' = limit
  /\ recent' = RecentOf(txFileExists, history, limit)
  /\ UNCHANGED <<ledgerVars, notLedger>>

InitLedger ==
  /\ pc = [r \in Req |-> "idle"]
  /\ key = [r \in Req |-> "none"]
  /\ retryCount = [r \in Req |-> 0]
  /\ nonce = [r \in Req |-> -1]
  /\ tx = [r \in Req |-> -1]
  /\ attempts = [r \in Req |-> <<>>]
  /\ msgs = [r \in Req |-> NoMsgs]
  /\ saves = [r \in Req |-> 0]
  /\ pendingCount = [a \in Addrs |-> 0]
  /\ balance = [a \in Addrs |-> GasCost]
  /\ sentNonces = [a \in Addrs |-> <<>>]
  /\ faults = 0
  /\ recentLimit = -1
  /\ recent = <<>>
  /\ vaultState = "absent"
  /\ vaultFile = NoVault
  /\ wallets = <<>>
  /\ logged = "none"
  /\ decryptCall = NoCall
  /\ tampers = 0
  /\ BotAtRest
  /\ \/ txFileExists = FALSE /\ history = <<>>
     \/ txFileExists = TRUE /\ history \in {<<>>, LeftBehind(HISTORY_CAP)}
  /\ clock = Len(history) + 1
  /\ appended = history

NextLedger ==
  \/ /\ clock <= MaxAppends
     /\ \E entry \in LedgerInputs(clock) : SaveTxHistory(entry)
  \/ \E limit \in 0..MaxLimit : GetTxHistory(limit)

SpecLedger == InitLedger /\ [][NextLedger]_vars

\* ------------------------------------------------------ properties

Ended(r) == pc[r] \in {"done", "threw"}

NoSuccess(r) == \A i \in DOMAIN attempts[r] : attempts[r][i].end # "success"

\* Between nonce acquisition and completion of the remote call.
InFlight(r) == pc[r] \in {"sign", "race"}

SameAddress(r, q) ==
  /\ r # q
  /\ ValidKey(key[r]) /\ ValidKey(key[q])
  /\ Addr(key[r]) = Addr(key[q])

\* C1: for every address, the nonces handed to the remote ledger are strictly
\* increasing in the order they are sent, so that no value is sent twice.
NoncesStrictlyIncreasing ==
  \A a \in Addrs : \A i, j \in DOMAIN sentNonces[a] :
    i < j => sentNonces[a][i] < sentNonces[a][j]

\* C2: two submissions for one address are never both between nonce
\* acquisition and completion of their remote call.
SameAddressSerialized ==
  \A r, q \in Req : SameAddress(r, q) => ~(InFlight(r) /\ InFlight(q))

\* C3: a call makes at most 3 attempts, and a call that has ended without a
\* successful attempt has made exactly 3 and has sent the final failure
\* message (and no success message).
RetryBound ==
  \A r \in Req :
    /\ Len(attempts[r]) <= 3
    /\ (Ended(r) /\ NoSuccess(r)) =>
         /\ Len(attempts[r]) = 3
         /\ msgs[r].failed = 1
         /\ msgs[r].success = 0

RetryBoundWitness ==
  \E r \in Req :
    /\ pc[r] = "done"
    /\ Len(attempts[r]) = 3
    /\ \A i \in 1..3 : attempts[r][i].end = "timeout"

TwoTimeoutsThenSuccess(r) ==
  /\ pc[r] = "done"
  /\ Len(attempts[r]) = 3
  /\ attempts[r][1].end = "timeout"
  /\ attempts[r][2].end = "timeout"
  /\ attempts[r][3].end = "success"

\* C4: a call whose first two attempts time out and whose third succeeds ends
\* in success: one success message, no failure message, one history entry,
\* which is a success entry whose transaction carries the nonce the third
\* attempt fetched from the remote ledger.
ThirdAttemptSuccess ==
  \A r \in Req :
    TwoTimeoutsThenSuccess(r) =>
      /\ msgs[r].success = 1
      /\ msgs[r].failed = 0
      /\ saves[r] = 1
      /\ attempts[r][3].txNonce = attempts[r][3].fetched
      /\ \E i \in DOMAIN history :
           /\ history[i].status = "success"
           /\ history[i].txHash =
                TxHash(Addr(key[r]), attempts[r][3].fetched)

\* The third attempt's nonce differs from the first attempt's, which the
\* remote ledger accepted after it had timed out.
ThirdAttemptSuccessWitness ==
  \E r \in Req :
    /\ TwoTimeoutsThenSuccess(r)
    /\ attempts[r][1].wire = "accepted"
    /\ attempts[r][3].fetched > attempts[r][1].fetched

\* C5: every call that has ended has appended exactly one history entry and
\* has sent exactly one terminal message.
ExactlyOneOutcome ==
  \A r \in Req :
    Ended(r) => (saves[r] = 1 /\ msgs[r].success + msgs[r].failed = 1)

\* C9: a call for an address whose balance is below gasLimit * gasPrice never
\* asks for a nonce, never sends a transaction and is never retried.
InsufficientNeverSubmits ==
  \A r \in Req :
    (ValidKey(key[r]) /\ balance[Addr(key[r])] < GasCost) =>
      /\ pc[r] \notin {"nonce", "sign", "race"}
      /\ retryCount[r] = 0
      /\ \A i \in DOMAIN attempts[r] : attempts[r][i].wire = "none"

\* C6: the history file never holds more than 100 entries.
LedgerBounded == Len(history) <= 100

\* The cap has cut the file.
LedgerBoundedWitness ==
  /\ txFileExists
  /\ Len(history) = 100
  /\ Len(appended) > 100

\* C7: the history file holds exactly the last min(n, 100) of the n entries
\* appended so far, oldest first.
LedgerIsLastAppended ==
  LET n == Len(appended)
      k == IF n < 100 THEN n ELSE 100
  IN  /\ Len(history) = k
      /\ \A i \in 1..k : history[i] = appended[n - k + i]

\* After 150 appends to an empty ledger the oldest 50 are gone.
LedgerIsLastAppendedWitness ==
  /\ Len(appended) = 150
  /\ appended[1].address = "A"
  /\ history[1] = appended[51]
  /\ history[100] = appended[150]

\* C8: getTxHistory(limit) returns the min(limit, size) entries appended
\* last, the last one first; in particular none for limit = 0.
RecentIsLastLimit ==
  recentLimit >= 0 =>
    LET size == Len(history)
        n == IF recentLimit < size THEN recentLimit ELSE size
    IN  /\ Len(recent) = n
        /\ \A i \in 1..n : recent[i] = history[size - i + 1]

IsHex(h) == "hex" \in DOMAIN h

FieldsPresent(v) ==
  v.iv # Undefined /\ v.salt # Undefined /\ v.encryptedData # Undefined

\* The MAC of (password, salt, ciphertext) is not the stored hmac.
MacDiffers(v, password) ==
  /\ v.salt # Undefined /\ v.encryptedData # Undefined
  /\ HmacHex(Scrypt(password, FromHex(v.salt)), v.encryptedData) # v.hmac

\* The ciphertext is not what encryptWallets wrote.
CipherAltered(v) ==
  \/ v.encryptedData = NotHex
  \/ IsHex(v.encryptedData) /\ v.encryptedData.hex.flipped

\* The hmac is not what encryptWallets wrote.
HmacAltered(v) ==
  \/ v.hmac = Undefined
  \/ v.hmac = NotHex
  \/ IsHex(v.hmac) /\ "flipped" \in DOMAIN v.hmac.hex

\* The vault was encrypted under another password.
WrongPassword(v, password) ==
  /\ IsHex(v.hmac)
  /\ "mac" \in DOMAIN v.hmac.hex
  /\ v.hmac.hex.mac.password # password

\* C10: a call of decryptWallets on a vault whose stored hmac is not the MAC
\* of (password, salt, ciphertext), be it that the ciphertext or the hmac
\* was altered or that the password is wrong, fails with the integrity error
\* before createDecipheriv is reached and returns no credential list; with a
\* field missing it fails no later.
VerifyBeforeDecrypt ==
  decryptCall.made =>
    LET v == decryptCall.vault
        password == decryptCall.password
        res == decryptCall.result
    IN  (\/ MacDiffers(v, password)
         \/ CipherAltered(v)
         \/ HmacAltered(v)
         \/ WrongPassword(v, password)) =>
          /\ ~res.deciphered
          /\ res.outcome # "ok"
          /\ res.value = <<>>
          /\ FieldsPresent(v) => res.outcome = "integrity"

\* decryptWallets was called with the right password on a vault whose
\* ciphertext had one bit flipped, and failed the integrity check.
VerifyBeforeDecryptWitness ==
  /\ decryptCall.made
  /\ FieldsPresent(decryptCall.vault)
  /\ CipherAltered(decryptCall.vault)
  /\ ~HmacAltered(decryptCall.vault)
  /\ ~WrongPassword(decryptCall.vault, decryptCall.password)
  /\ decryptCall.result.outcome = "integrity"

\* C11: decryptWallets(encryptWallets(C, P), P) = C, whatever salt and IV
\* encryptWallets drew.
RoundTrip ==
  \A data \in WalletLists, password \in Passwords,
     iv \in RandomBytes, salt \in RandomBytes :
    (/\ decryptCall.made
     /\ decryptCall.vault = EncryptWallets(data, password, iv, salt)
     /\ decryptCall.password = password) =>
       /\ decryptCall.result.outcome = "ok"
       /\ decryptCall.result.value = data

\* A vault of two keys, encrypted under the other password, came back.
RoundTripWitness ==
  /\ decryptCall.made
  /\ decryptCall.password = "another-password"
  /\ \E iv \in RandomBytes, salt \in RandomBytes :
       decryptCall.vault =
         EncryptWallets(<<"keyA", "keyB">>, "another-password", iv, salt)
  /\ decryptCall.result.outcome = "ok"
  /\ decryptCall.result.value = <<"keyA", "keyB">>

\* A field of the vault is missing or is not what encryptWallets wrote.
FieldCorrupted(v) ==
  \/ \E f \in {"iv", "salt", "encryptedData", "hmac"} :
       v[f] = Undefined \/ v[f] = NotHex
  \/ "bytes" \notin DOMAIN v.iv.hex
  \/ "bytes" \notin DOMAIN v.salt.hex
  \/ v.encryptedData.hex.flipped
  \/ "mac" \notin DOMAIN v.hmac.hex

\* The credential list the vault was encrypted from.
VaultContent(v) == v.encryptedData.hex.plain.json

\* What loadWallets may leave behind after reading a vault file in the given
\* state: the credential list the vault was encrypted from, or an empty list
\* with a warning or an error logged, and the latter whenever a field of the
\* vault is missing or corrupted.
FaithfulOrLoud(state, v, list, level) ==
  LET loud == list = <<>> /\ level \in {"warn", "error"}
  IN  IF state # "json" \/ FieldCorrupted(v)
        THEN loud
        ELSE list = VaultContent(v) \/ loud

\* C12: after loadWallets, either the credential list is what the vault was
\* encrypted from, or it is empty and a warning or an error was logged; the
\* latter whenever a field of the vault is missing or corrupted.
LoadIsFaithfulOrLoud ==
  [][LoadWallets => FaithfulOrLoud(vaultState, vaultFile, wallets', logged')]_vars

\* The submissions that reached their outcome.
Terminal == {r \in Req : pc[r] = "done"}

\* C14: when submissions for different addresses have reached their outcomes,
\* in whatever interleaving, the ledger holds exactly one entry for each and
\* nothing was lost or overwritten.
LedgerAppendsAtomic ==
  (\A r, q \in Terminal : r # q => Addr(key[r]) # Addr(key[q])) =>
    /\ Len(history) = Cardinality(Terminal)
    /\ history = appended
    /\ \A r \in Terminal :
         \E i \in DOMAIN history :
           /\ history[i].address = Addr(key[r])
           /\ history[i].status = IF NoSuccess(r) THEN "failed" ELSE "success"

\* Two submissions for different addresses ran interleaved (the second was
\* called before the first was over) and both reached their outcome.
LedgerAppendsAtomicWitness ==
  /\ Terminal = Req
  /\ Addr(key[1]) # Addr(key[2])
  /\ Len(history) = 2
  /\ history[1].address = Addr(key[2])
  /\ history[1].status = "failed"
  /\ history[2].status = "success"

\* C17: the timer firing leaves the transaction of the attempt where it is:
\* the call it raced against is not cancelled.
TimeoutDoesNotCancel ==
  [][\A r \in Req :
       TimerFires(r) =>
         \A i \in DOMAIN attempts[r] :
           /\ attempts'[r][i].wire = attempts[r][i].wire
           /\ attempts'[r][i].txNonce = attempts[r][i].txNonce]_vars

\* An attempt was treated as timed out, the retry still fetched the nonce of
\* its transaction (so the remote ledger had not accepted it by then), the
\* remote ledger accepted it afterwards, and the submission ended failed.
TimeoutDoesNotCancelWitness ==
  \E r \in Req :
    /\ pc[r] = "done" /\ NoSuccess(r)
    /\ msgs[r].failed = 1
    /\ history # <<>> /\ history[Len(history)].status = "failed"
    /\ \E i \in DOMAIN attempts[r] :
         /\ attempts[r][i].end = "timeout"
         /\ attempts[r][i].wire = "accepted"
         /\ i + 1 \in DOMAIN attempts[r]
         /\ attempts[r][i + 1].fetched = attempts[r][i].txNonce

\* C18: of the transactions one submission sent over all its attempts, the
\* remote ledger accepts at most one.
AtMostOneAccepted ==
  \A r \in Req :
    Cardinality({i \in DOMAIN attempts[r] :
                   attempts[r][i].wire = "accepted"}) <= 1

\* C20: every ledger entry has a status of success or failed, an address and
\* a timestamp, a txHash exactly when it is a success and an error exactly
\* when it is failed.
LedgerEntriesWellFormed ==
  \A i \in DOMAIN history :
    LET e == history[i]
    IN  /\ {"status", "address", "timestamp"} \subseteq DOMAIN e
        /\ e.status \in {"success", "failed"}
        /\ e.address \in Addrs
        /\ ("txHash" \in DOMAIN e) <=> (e.status = "success")
        /\ ("error" \in DOMAIN e) <=> (e.status = "failed")

\* The ledger holds an entry of each status.
LedgerEntriesWellFormedWitness ==
  /\ \E i \in DOMAIN history : history[i].status = "success"
  /\ \E i \in DOMAIN history : history[i].status = "failed"

Returned(c) ==
  IF run[c].pc \in {"delay", "done"} THEN run[c].idx
  ELSE IF run[c].idx = 0 THEN 0 ELSE run[c].idx - 1

\* The outcomes mintNFT may report for wallet w.
OutcomesOf(w) ==
  IF ~BotValidKey(With0x(w)) THEN {"nocontract", "failed"}
  ELSE {"nocontract", "failed", "insufficient", "success"}

\* C13: in a batch mint no failure of a credential ends the batch: the
\* handler goes on to the remaining credentials, every credential it has
\* dealt with has its own report, and when the handler returns every
\* credential of the batch has one.
BatchSurvivesFailures ==
  \A c \in Runs :
    /\ run[c].pc = "aborted" => run[c].idx = 0
    /\ Len(run[c].reports) = Returned(c)
    /\ \A i \in DOMAIN run[c].reports :
         run[c].reports[i] \in OutcomesOf(cfgWallets[i])
    /\ run[c].pc = "done" => Len(run[c].reports) = Len(cfgWallets)
    /\ run[c].pc = "delay" => ENABLED DelayDone(c)

\* A batch of three ended: the second credential was malformed and failed,
\* the first and the third were minted.
BatchSurvivesFailuresWitness ==
  \E c \in Runs :
    /\ run[c].pc = "done"
    /\ run[c].reports = <<"success", "failed", "success">>

\* The handler's own steps: those that need no answer of the remote ledger
\* to a send call.
HandlerStep(c) ==
  \/ StartSent(c)
  \/ BalanceReply(c)
  \/ BotSignDone(c)
  \/ DelayDone(c)

\* C15: while the send call for one address is unanswered, the batch can
\* still go on to a credential of a different address.
StallDoesNotBlock ==
  \A c \in Runs :
    (/\ run[c].pc = "send"
     /\ run[c].wire = "sent"
     /\ \E j \in DOMAIN cfgWallets :
          /\ j > run[c].idx
          /\ BotValidKey(With0x(cfgWallets[j]))
          /\ Addr(cfgWallets[j].body) # BotAddr(c))
      => ENABLED HandlerStep(c)

\* C16: /mint, /setcontract and /setchannel from a user who is no admin
\* start no batch, sign and send nothing, and leave the contract address and
\* the channel as they are.
NonAdminChangesNothing ==
  [][\A u \in Users \ ADMIN_IDS :
       (\/ \E c \in Runs : MintCommand(c, u)
        \/ \E a \in ContractArgs : SetContract(u, a)
        \/ \E ch \in ChannelArgs : SetChannel(u, ch))
         => UNCHANGED <<cfgContract, contract, cfgChannel, configFile,
                        cfgWallets, run, remoteVars>>]_vars

\* A user who is no admin sent commands and was turned away each time, on a
\* bot that has wallets and a contract.
NonAdminChangesNothingWitness ==
  /\ denials >= 2
  /\ cfgWallets # <<>>
  /\ contract # NoContract

\* How often key k occurs in list.
Occurrences(list, k) == Cardinality({i \in DOMAIN list : list[i] = k})

\* C21: once loadWallets has loaded a credential list that is not empty, a
\* /mint of the admin starts exactly one submission for each loaded
\* credential and for no other key.
MintUsesLoadedWallets ==
  [][(ServerMint(ADMIN_ID) /\ wallets # <<>>) =>
       \A k \in Keys \cup {"garbled"} :
         Cardinality({r \in Req : pc[r] = "idle" /\ pc'[r] # "idle"
                                   /\ key'[r] = k})
           = Occurrences(wallets, k)]_vars

====
